---- MODULE Spec2Model ----
(***************************************************************************)
(* Verification model of video_summarizer.                                 *)
(*                                                                         *)
(* Part 1: the transcribe Job pipeline of api/main.py                      *)
(*   transcribe_url / transcribe_file  create a Job row and dispatch a     *)
(*   process_transcription background task; the task drives the Job        *)
(*   through its stages with update_job; get_job_status polls the row.     *)
(*                                                                         *)
(* The database is a store of committed rows: a commit either succeeds     *)
(* (the row becomes visible to every other session) or raises, in which    *)
(* case SQLAlchemy rolls the session back and the committed row is left    *)
(* as it was.  Every external call (mkdir, download, ffmpeg, whisper,      *)
(* file writes) either returns or raises; which one is the environment's   *)
(* choice.  An exception caught by the task's except clause is handled in  *)
(* the step that raised it: nothing another thread can see happens in      *)
(* between.  Not modelled: updated_at/created_at (wall clock), user_id,    *)
(* the model and device arguments.                                         *)
(*                                                                         *)
(* Part 2: the llm package                                                 *)
(*   complete / complete_json of the two clients (client.py), the JSON     *)
(*   extractor _parse_json_response with _try_fix_incomplete_json,         *)
(*   clip_extractor.extract_clips behind POST /api/extract-clips, and      *)
(*   VideoSummarizer.extract_clips.  Text is a sequence of one-character   *)
(*   strings; json.loads and the regular expressions of the extractor are  *)
(*   operators over such sequences.  ChatSession.chat (chat.py) is run by  *)
(*   two threads on one session of the chat_sessions registry.             *)
(*                                                                         *)
(* Part 3: the subtitles of transcription/srt_formatter.py                 *)
(*   format_timestamp, format_as_srt and parse_srt.  A time is a number    *)
(*   of whole seconds and a number of microseconds below one second.       *)
(***************************************************************************)
EXTENDS Integers, Sequences, FiniteSets, TLC

\* Number of Jobs created in a run of Spec; PairSpec, which is about Jobs
\* running side by side, creates one more.
MaxJobs == 1

JobIds == 1..(MaxJobs + 1)

VARIABLES
    store,      \* jobs table: job id -> committed Job row
    videos,     \* videos table: sequence of committed Video rows (id = index)
    task,       \* job id -> the process_transcription task for it
    audio,      \* job id -> the temp audio file of the task
    dispatched, \* job id -> number of tasks handed to background_tasks
    failCalls,  \* job id -> number of update_job(FAILED) calls made
    resp,       \* the response of get_job_status, if the step taken was a poll
    call,       \* the arguments of update_job, if the step taken was a bare call
    llm,        \* a complete / complete_json call in progress
    batch,      \* a POST /api/extract-clips request cutting its clips
    ext,        \* an application of _parse_json_response: its text and outcome
    norm,       \* an application of VideoSummarizer.extract_clips
    chat,       \* a ChatSession and the chat calls running on it
    srt         \* segments on their way through format_as_srt and parse_srt

\* the state of the transcribe pipeline, and that of the llm package
pipeline == <<store, videos, task, audio, dispatched, failCalls, resp, call>>
lib == <<llm, batch, ext, norm, chat, srt>>

vars == <<store, videos, task, audio, dispatched, failCalls, resp, call,
          llm, batch, ext, norm, chat, srt>>

-----------------------------------------------------------------------------
\* Values

\* Python None where a string is expected
None == "<None>"

\* JobStatus
PENDING == "pending"
PROCESSING == "processing"
COMPLETED == "completed"
FAILED == "failed"

\* request sources: a YouTube URL, some other URL, and the path of an upload
YoutubeUrl == "https://youtu.be/dQw4w9WgXcQ"
OtherUrl == "https://example.com/v.mp4"
UploadPath(j) == "output/" \o ToString(j) \o "/upload.mp4"
Urls == {YoutubeUrl, OtherUrl}

\* language codes a request can carry (None: not given)
Languages == {None, "EN", "fr"}

ALLOWED_LANGUAGES == {"ar", "en"}

\* str.lower() on the language codes of the model
Lower(s) == IF s = "EN" THEN "en" ELSE s

validate_language(lang) ==
    IF lang # None /\ lang # "" /\ Lower(lang) \in ALLOWED_LANGUAGES
    THEN Lower(lang)
    ELSE "ar"

is_youtube_url(url) == url = YoutubeUrl

\* a dict with no keys; a JSON column holding None reads the same to update_job
EmptyDict == [k \in {} |-> ""]

\* Python truthiness of a str-or-None and of a dict-or-None
TruthyStr(s) == s # None /\ s # ""
TruthyDict(d) == DOMAIN d # {}

\* dict.update
DictUpdate(current, new) ==
    [k \in DOMAIN current \cup DOMAIN new |->
        IF k \in DOMAIN new THEN new[k] ELSE current[k]]

\* models.Job(id=job_id, type="transcribe", status=PENDING); video_id 0 is
\* NULL (Video ids start at 1)
NewJob == [type |-> "transcribe", status |-> PENDING, result |-> EmptyDict,
           error |-> None, video_id |-> 0]

\* step labels
StepStarting == "Starting transcription pipeline..."
StepDownloading == "Downloading video..."
StepExtracting == "Extracting audio..."
StepTranscribing(lang) == "Transcribing audio (" \o lang \o ")..."
StepCompleted == "Completed"

\* str(e) of the exceptions the stages raise
ExcCommit == "(sqlite3.OperationalError) database is locked"
ExcDownload == "Failed to download video: " \o "ERROR: Video unavailable"
ExcVideoMissing(path) == "Video file not found: " \o path
ExcFfmpeg == "FFmpeg failed to extract audio: " \o "Invalid data found"
ExcNoMessage == ""
ExcTranscribe == "Transcription failed: " \o "CUDA out of memory"
ExcWrite == "[Errno 28] No space left on device"

\* the transcript the transcriber returns
Segments == <<"hello", "world">>
PlainText == "hello\nworld"

-----------------------------------------------------------------------------
\* update_job with "job.result = result" in place of the merge
update_job_Replace(row, status, result, error) ==
    [row EXCEPT
        !.status = status,
        !.result = IF TruthyDict(result) THEN result ELSE row.result,
        !.error = IF TruthyStr(error) THEN error ELSE row.error]

\* update_job: the row it commits, given the committed row
update_job(row, status, result, error) ==
    [row EXCEPT
        !.status = status,
        !.result = IF TruthyDict(result)
                   THEN DictUpdate(IF TruthyDict(row.result) THEN row.result
                                   ELSE EmptyDict, result)
                   ELSE row.result,
        !.error = IF TruthyStr(error) THEN error ELSE row.error]

\* a task that has not been created
NoTask == [pc |-> "none", source |-> None, video_path |-> None,
           title |-> None, db_video |-> 0, audio_path |-> None,
           stage_done |-> "none", raisedAt |-> "none"]

\* no response: the step just taken was not a poll
NoResp == [code |-> "none"]

\* no call: the step just taken was not a bare update_job call
NoCall == [status |-> None, result |-> EmptyDict, error |-> None]

\* no complete call, no extract-clips request, no extraction, no clip list
NoLlm == [pc |-> "none"]
NoBatch == [pc |-> "none"]
NoExt == [pc |-> "none"]
NoNorm == [pc |-> "none"]

\* no chat session, no subtitles
NoChat == [pc |-> "none"]
NoSrt == [pc |-> "none"]

LibIdle ==
    /\ llm = NoLlm
    /\ batch = NoBatch
    /\ ext = NoExt
    /\ norm = NoNorm
    /\ chat = NoChat
    /\ srt = NoSrt

\* the pipeline at process start, but for the jobs table
PipelineRest ==
    /\ videos = <<>>
    /\ task = [j \in JobIds |-> NoTask]
    /\ audio = [j \in JobIds |-> "none"]
    /\ dispatched = [j \in JobIds |-> 0]
    /\ failCalls = [j \in JobIds |-> 0]
    /\ resp = NoResp
    /\ call = NoCall

\* everything but the jobs table at process start
InitRest ==
    /\ LibIdle
    /\ PipelineRest

Init ==
    /\ store = [j \in {} |-> NewJob]
    /\ InitRest

\* uuid4(): an id no Job has
FreshId == Cardinality(DOMAIN store) + 1

\* background_tasks.add_task(process_transcription, job_id, source, ...)
add_task(j, src) ==
    /\ task' = [task EXCEPT ![j] = [NoTask EXCEPT !.pc = "start", !.source = src]]
    /\ dispatched' = [dispatched EXCEPT ![j] = @ + 1]

\* POST /api/transcribe/url ("limit" bounds the Jobs of the run)
transcribe_url(limit) ==
    /\ FreshId <= limit
    /\ store' = store @@ (FreshId :> NewJob)
    /\ \E url \in Urls : add_task(FreshId, url)
    /\ resp' = NoResp
    /\ UNCHANGED <<call, lib>>
    /\ UNCHANGED <<videos, audio, failCalls>>

\* POST /api/transcribe/file: the Job is committed, then the upload is saved
\* (mkdir, open, copyfileobj: any of them may raise), then the task is
\* dispatched
transcribe_file(limit) ==
    /\ FreshId <= limit
    /\ store' = store @@ (FreshId :> NewJob)
    /\ \E saved \in BOOLEAN :
        IF saved
        THEN add_task(FreshId, UploadPath(FreshId))
        ELSE UNCHANGED <<task, dispatched>>
    /\ resp' = NoResp
    /\ UNCHANGED <<call, lib>>
    /\ UNCHANGED <<videos, audio, failCalls>>

\* GET /api/jobs/{job_id}: a fresh session reads the committed row
get_job_status(j) ==
    IF j \notin DOMAIN store
    THEN [code |-> "404", detail |-> "Job not found"]
    ELSE [code |-> "200", id |-> j, type |-> store[j].type,
          status |-> store[j].status, result |-> store[j].result,
          error |-> store[j].error]

Poll ==
    /\ \E j \in JobIds : resp' = get_job_status(j)
    /\ UNCHANGED <<store, videos, task, audio, dispatched, failCalls, call, lib>>

-----------------------------------------------------------------------------
\* process_transcription(job_id, source, model, language, device, user_id)

DownloadedPath(j) == "output/" \o ToString(j) \o "/video.mp4"
AudioPath(j) == "/tmp/tmp" \o ToString(j) \o ".wav"
SrtPath(j) == "output/" \o ToString(j) \o "/transcript.srt"
TextPath(j) == "output/" \o ToString(j) \o "/transcript.txt"

\* Path(video_path).name
Basename(path) ==
    IF path = OtherUrl THEN "v.mp4"
    ELSE IF \E j \in JobIds : path = UploadPath(j) THEN "upload.mp4"
    ELSE "video.mp4"

Goto(j, p) == task' = [task EXCEPT ![j].pc = p]

\* the function returns (finally: db.close()): its arguments and locals are
\* gone; what stays is the record of the run: where an exception was raised
\* ("none": nowhere), the last stage that returned, and the audio path
\* extract_audio returned
Return(j, at) ==
    task' = [task EXCEPT ![j] = [NoTask EXCEPT !.pc = "done", !.raisedAt = at,
                                     !.stage_done = task[j].stage_done,
                                     !.audio_path = task[j].audio_path]]

\* update_job without its db.commit(): the change stays in the task's session
CommitJob_NoCommit(j, row, ok) ==
    store' = store

\* the Job looked up without the id filter: .first() is the first row
CommitJob_FirstRow(j, row, ok) ==
    store' = IF ok THEN [store EXCEPT ![1] = row] ELSE store

\* db.commit() of the Job row: ok, or it raises and the row is rolled back
CommitJob(j, row, ok) ==
    store' = IF ok THEN [store EXCEPT ![j] = row] ELSE store

\* lines 139-140: except Exception as e: update_job(FAILED, error=str(e));
\* if that commit raises too, the exception leaves the function
Caught(j, e) ==
    /\ failCalls' = [failCalls EXCEPT ![j] = @ + 1]
    /\ \E ok \in BOOLEAN :
        CommitJob(j, update_job(store[j], FAILED, EmptyDict, e), ok)
    /\ Return(j, task[j].pc)

\* the first status update and the mkdir moved inside the inner try
Propagate_InsideTry(j) ==
    Caught(j, ExcCommit)

\* an exception raised outside the inner try (lines 47-70) leaves the function
Propagate(j) ==
    /\ Return(j, task[j].pc)
    /\ UNCHANGED <<store, failCalls>>

\* a stage entered without its update_job call
Announce_Unlabelled(j, label, next) ==
    \/ /\ Goto(j, next)
       /\ UNCHANGED <<store, failCalls>>
    \/ Caught(j, ExcCommit)

\* update_job(PROCESSING, {"step": label}) inside the try, then on to "next"
Announce(j, label, next) ==
    \/ /\ CommitJob(j, update_job(store[j], PROCESSING, [step |-> label], None), TRUE)
       /\ Goto(j, next)
       /\ UNCHANGED failCalls
    \/ Caught(j, ExcCommit)

\* lines 45-68: look the Job up, validate the language, first status update.
\* validated_language is read first at line 106: the language of the request
\* is drawn there
Start(j) ==
    /\ task[j].pc = "start"
    /\ IF j \notin DOMAIN store
       THEN Return(j, "nojob") /\ UNCHANGED <<store, failCalls>>
       ELSE \/ /\ CommitJob(j, update_job(store[j], PROCESSING,
                                          [step |-> StepStarting], None), TRUE)
               /\ Goto(j, "mkdir")
               /\ UNCHANGED failCalls
            \/ Propagate(j)
    /\ resp' = NoResp
    /\ UNCHANGED <<call, lib>>
    /\ UNCHANGED <<videos, audio, dispatched>>

\* lines 69-70: output_dir.mkdir(parents=True, exist_ok=True)
MakeOutputDir(j) ==
    /\ task[j].pc = "mkdir"
    /\ \/ Goto(j, "source") /\ UNCHANGED <<store, failCalls>>
       \/ Propagate(j)
    /\ resp' = NoResp
    /\ UNCHANGED <<call, lib>>
    /\ UNCHANGED <<videos, audio, dispatched>>

\* lines 74-79: choose the source; a YouTube URL is announced as a download
HandleSource(j) ==
    /\ task[j].pc = "source"
    /\ IF is_youtube_url(task[j].source)
       THEN Announce(j, StepDownloading, "download")
       ELSE /\ task' = [task EXCEPT ![j].pc = "add_video",
                                    ![j].video_path = task[j].source,
                                    ![j].title = "Uploaded Video"]
            /\ UNCHANGED <<store, failCalls>>
    /\ resp' = NoResp
    /\ UNCHANGED <<call, lib>>
    /\ UNCHANGED <<videos, audio, dispatched>>

\* lines 80-83: download_video(source, output_dir)
Download(j) ==
    /\ task[j].pc = "download"
    /\ \/ /\ task' = [task EXCEPT ![j].pc = "add_video",
                                  ![j].stage_done = "download",
                                  ![j].video_path = DownloadedPath(j),
                                  ![j].title = "YouTube Video " \o ToString(j)]
          /\ UNCHANGED <<store, failCalls>>
       \/ Caught(j, ExcDownload)
    /\ resp' = NoResp
    /\ UNCHANGED <<call, lib>>
    /\ UNCHANGED <<videos, audio, dispatched>>

\* lines 86-95: db.add(db_video); db.commit(); db.refresh(db_video)
AddVideo(j) ==
    /\ task[j].pc = "add_video"
    /\ \/ /\ videos' = Append(videos,
                    [title |-> task[j].title,
                     filename |-> Basename(task[j].video_path),
                     file_path |-> task[j].video_path,
                     source_url |-> IF is_youtube_url(task[j].source)
                                    THEN task[j].source ELSE None,
                     transcript_text |-> None,
                     transcript_path |-> None])
          /\ task' = [task EXCEPT ![j].pc = "link_video",
                                  ![j].db_video = Len(videos) + 1]
          /\ UNCHANGED <<store, failCalls>>
       \/ Caught(j, ExcCommit) /\ UNCHANGED videos
    /\ resp' = NoResp
    /\ UNCHANGED <<call, lib>>
    /\ UNCHANGED <<audio, dispatched>>

\* lines 98-99: job.video_id = db_video.id; db.commit()
LinkVideo(j) ==
    /\ task[j].pc = "link_video"
    /\ \/ /\ CommitJob(j, [store[j] EXCEPT !.video_id = task[j].db_video], TRUE)
          /\ Goto(j, "extract")
          /\ UNCHANGED failCalls
       \/ Caught(j, ExcCommit)
    /\ resp' = NoResp
    /\ UNCHANGED <<call, lib>>
    /\ UNCHANGED <<videos, audio, dispatched>>

\* line 102
AnnounceExtract(j) ==
    /\ task[j].pc = "extract"
    /\ Announce(j, StepExtracting, "extract_run")
    /\ resp' = NoResp
    /\ UNCHANGED <<call, lib>>
    /\ UNCHANGED <<videos, audio, dispatched>>

\* line 103: extract_audio(video_path).  A path that is no file on disk raises
\* FileNotFoundError before anything is created; otherwise mkstemp creates the
\* temp file and ffmpeg fills it, or ffmpeg fails (AudioExtractionError), or
\* the call dies with an exception that carries no message (MemoryError())
ExtractAudio(j) ==
    /\ task[j].pc = "extract_run"
    /\ IF task[j].video_path = OtherUrl
       THEN /\ Caught(j, ExcVideoMissing(task[j].video_path))
            /\ UNCHANGED audio
       ELSE /\ audio' = [audio EXCEPT ![j] = "exists"]
            /\ \/ /\ task' = [task EXCEPT ![j].pc = "transcribe",
                                          ![j].stage_done = "extract",
                                          ![j].audio_path = AudioPath(j)]
                  /\ UNCHANGED <<store, failCalls>>
               \/ Caught(j, ExcFfmpeg)
               \/ Caught(j, ExcNoMessage)
    /\ resp' = NoResp
    /\ UNCHANGED <<call, lib>>
    /\ UNCHANGED <<videos, dispatched>>

\* line 106
AnnounceTranscribe(j) ==
    /\ task[j].pc = "transcribe"
    /\ \E language \in Languages :
        Announce(j, StepTranscribing(validate_language(language)), "transcribe_run")
    /\ resp' = NoResp
    /\ UNCHANGED <<call, lib>>
    /\ UNCHANGED <<videos, audio, dispatched>>

\* lines 107-108: WhisperTranscriber(...).transcribe(audio_path)
Transcribe(j) ==
    /\ task[j].pc = "transcribe_run"
    /\ \/ /\ task' = [task EXCEPT ![j].pc = "save",
                                  ![j].stage_done = "transcribe"]
          /\ UNCHANGED <<store, failCalls>>
       \/ Caught(j, ExcTranscribe)
    /\ resp' = NoResp
    /\ UNCHANGED <<call, lib>>
    /\ UNCHANGED <<videos, audio, dispatched>>

\* lines 111-118: save_srt(segments, srt_path); write transcript.txt
SaveTranscript(j) ==
    /\ task[j].pc = "save"
    /\ \/ Goto(j, "update_video") /\ UNCHANGED <<store, failCalls>>
       \/ Caught(j, ExcWrite)
    /\ resp' = NoResp
    /\ UNCHANGED <<call, lib>>
    /\ UNCHANGED <<videos, audio, dispatched>>

\* lines 121-123: the Video row gets the transcript; db.commit()
UpdateVideo(j) ==
    /\ task[j].pc = "update_video"
    /\ \/ /\ videos' = [videos EXCEPT
                    ![task[j].db_video].transcript_text = PlainText,
                    ![task[j].db_video].transcript_path = TextPath(j)]
          /\ task' = [task EXCEPT ![j].pc = "cleanup",
                                  ![j].stage_done = "persist"]
          /\ UNCHANGED <<store, failCalls>>
       \/ Caught(j, ExcCommit) /\ UNCHANGED videos
    /\ resp' = NoResp
    /\ UNCHANGED <<call, lib>>
    /\ UNCHANGED <<audio, dispatched>>

\* lines 126-127: if os.path.exists(audio_path): os.unlink(audio_path)
Cleanup(j) ==
    /\ task[j].pc = "cleanup"
    /\ audio' = [audio EXCEPT ![j] = IF @ = "exists" THEN "deleted" ELSE @]
    /\ Goto(j, "complete")
    /\ resp' = NoResp
    /\ UNCHANGED <<call, lib>>
    /\ UNCHANGED <<store, videos, dispatched, failCalls>>

\* the result of a successful run (lines 129-137)
CompletedResult(j) ==
    [message |-> "Transcription successful",
     step |-> StepCompleted,
     video_path |-> task[j].video_path,
     video_id |-> task[j].db_video,
     transcript_path |-> SrtPath(j),
     segments_count |-> Len(Segments),
     transcript_text |-> PlainText]

\* lines 129-137: update_job(COMPLETED, {...})
Complete(j) ==
    /\ task[j].pc = "complete"
    /\ \/ /\ CommitJob(j, update_job(store[j], COMPLETED, CompletedResult(j), None), TRUE)
          /\ Return(j, "none")
          /\ UNCHANGED failCalls
       \/ Caught(j, ExcCommit)
    /\ resp' = NoResp
    /\ UNCHANGED <<call, lib>>
    /\ UNCHANGED <<videos, audio, dispatched>>

TaskStep(j) ==
    \/ Start(j)
    \/ MakeOutputDir(j)
    \/ HandleSource(j)
    \/ Download(j)
    \/ AddVideo(j)
    \/ LinkVideo(j)
    \/ AnnounceExtract(j)
    \/ ExtractAudio(j)
    \/ AnnounceTranscribe(j)
    \/ Transcribe(j)
    \/ SaveTranscript(j)
    \/ UpdateVideo(j)
    \/ Cleanup(j)
    \/ Complete(j)

Next ==
    \/ transcribe_url(MaxJobs)
    \/ transcribe_file(MaxJobs)
    \/ Poll
    \/ \E j \in JobIds : TaskStep(j)

Spec == Init /\ [][Next]_vars

-----------------------------------------------------------------------------
\* update_job on its own: any sequence of calls on one Job

\* result dicts a call can carry ({}: the call gives no result)
ResultKeys == {"step", "message", "video_id"}
ResultValues == {"a", "b"}
Dicts == UNION {[ks -> ResultValues] : ks \in SUBSET ResultKeys}

Statuses == {PROCESSING, COMPLETED, FAILED}
Errors == {None, "", "boom"}

\* one Job, as transcribe_url creates it
UpdateInit ==
    /\ store = (1 :> NewJob)
    /\ InitRest

UpdateCall ==
    /\ \E status \in Statuses, result \in Dicts, error \in Errors :
        /\ call' = [status |-> status, result |-> result, error |-> error]
        /\ CommitJob(1, update_job(store[1], status, result, error), TRUE)
    /\ UNCHANGED <<videos, task, audio, dispatched, failCalls, resp, lib>>

UpdateSpec == UpdateInit /\ [][UpdateCall]_vars

-----------------------------------------------------------------------------
\* the same program with one more Job: Jobs run concurrently
PairNext ==
    \/ transcribe_url(MaxJobs + 1)
    \/ transcribe_file(MaxJobs + 1)
    \/ Poll
    \/ \E j \in JobIds : TaskStep(j)

PairSpec == Init /\ [][PairNext]_vars
-----------------------------------------------------------------------------
\* Properties of the Job pipeline

Terminal == {COMPLETED, FAILED}

\* one step of the status path pending -> processing -> {completed | failed}
StatusStep(a, b) ==
    \/ a = b
    \/ a = PENDING /\ b = PROCESSING
    \/ a = PROCESSING /\ b \in Terminal

\* C1: the committed status of a Job only moves along
\* pending -> processing -> {completed | failed}: a Job is created pending and
\* no update_job call changes a status that is completed or failed.
C1_StatusPath ==
    [][/\ \A j \in DOMAIN store : StatusStep(store[j].status, store'[j].status)
       /\ \A j \in DOMAIN store' \ DOMAIN store : store'[j].status = PENDING]_vars

\* C1 witness: update_job(COMPLETED) raised at its commit and the except clause
\* called update_job(FAILED) after it: the Job is failed, not completed
C1_Witness ==
    \E j \in DOMAIN store :
        /\ task[j].pc = "done"
        /\ task[j].raisedAt = "complete"
        /\ store[j].status = FAILED

\* C2: when process_transcription has returned, whichever step raised, the Job
\* is completed or failed.
C2_EndsTerminal ==
    \A j \in DOMAIN store :
        task[j].pc = "done" => store[j].status \in Terminal

\* C3: every Job row that transcribe_url or transcribe_file has committed has
\* exactly one process_transcription task dispatched for it.
C3_OneTaskPerJob ==
    \A j \in DOMAIN store : dispatched[j] = 1

\* the stages of a transcribe Job that C4 names, by the position of the call
FailedStage(at) ==
    CASE at = "download" -> "Download"
      [] at = "extract_run" -> "Audio extraction"
      [] at = "transcribe_run" -> "Transcription"
      [] OTHER -> None

\* what an exception of a stage can say
Causes ==
    {ExcDownload, ExcFfmpeg, ExcNoMessage, ExcTranscribe, ExcWrite, ExcCommit,
     "ERROR: Video unavailable", "Invalid data found", "CUDA out of memory"}
    \cup {ExcVideoMissing(p) : p \in {OtherUrl}}

\* C4: a run in which download, audio extraction or transcription raised made
\* exactly one fail call, and the Job's error reads "<Stage> failed: <cause>"
\* for the stage that raised.
C4_StageNamedInError ==
    \A j \in DOMAIN store :
        (task[j].pc = "done" /\ FailedStage(task[j].raisedAt) # None)
        => /\ failCalls[j] = 1
           /\ \E cause \in Causes :
                store[j].error = FailedStage(task[j].raisedAt) \o " failed: " \o cause

\* C5: when a run has ended after extract_audio returned an audio path, the
\* audio file is gone.
C5_AudioDeleted ==
    \A j \in JobIds :
        (task[j].pc = "done" /\ task[j].audio_path # None) => audio[j] # "exists"

\* C6: a failed Job has an error message.
C6_FailedHasError ==
    \A j \in DOMAIN store :
        store[j].status = FAILED => store[j].error # None

\* the committed step label of a Job (None: no label yet)
StepOf(j) ==
    IF "step" \in DOMAIN store[j].result THEN store[j].result["step"] ELSE None

TranscribingLabels == {StepTranscribing(validate_language(l)) : l \in Languages}

\* the stage a task is running at a position, and the stage a label describes
RunningStage(pc) ==
    CASE pc = "download" -> "download"
      [] pc = "extract_run" -> "extract"
      [] pc = "transcribe_run" -> "transcribe"
      [] pc \in {"save", "update_video"} -> "persist"
      [] OTHER -> "none"

LabelStage(label) ==
    CASE label = StepDownloading -> "download"
      [] label = StepExtracting -> "extract"
      [] label \in TranscribingLabels -> "transcribe"
      [] OTHER -> "none"

\* C7 as stated: while any stage runs (download, extract-audio, transcribe,
\* persist transcript) the committed step label describes that stage.
C7_EveryStageLabelled ==
    \A j \in DOMAIN store :
        RunningStage(task[j].pc) # "none"
        => LabelStage(StepOf(j)) = RunningStage(task[j].pc)

\* C7 amended: while download, extract-audio or transcribe runs, the Job is
\* processing and its committed step label describes that stage; the
\* transcript is persisted under the label of the transcribe stage.
C7_CallStagesLabelled ==
    \A j \in DOMAIN store :
        RunningStage(task[j].pc) # "none"
        => /\ store[j].status = PROCESSING
           /\ LabelStage(StepOf(j)) =
                IF RunningStage(task[j].pc) = "persist" THEN "transcribe"
                ELSE RunningStage(task[j].pc)

\* C7 witness: the transcriber is running under its label
C7_Witness ==
    \E j \in DOMAIN store :
        /\ task[j].pc = "transcribe_run"
        /\ StepOf(j) = StepTranscribing("en")

\* C8: an update_job call never removes a key of the Job's result: the result
\* after the call has the old keys and the keys of the call, with the call's
\* value for each key of the call and the old value for every other key; a
\* call that gives no result (fail) leaves the result as it was.
C8_ResultMerged ==
    [][\A j \in DOMAIN store :
        LET old == store[j].result
            new == store'[j].result
        IN  store'[j] # store[j] \/ call' # call
            => /\ DOMAIN new = DOMAIN old \cup DOMAIN call'.result
               /\ \A k \in DOMAIN call'.result : new[k] = call'.result[k]
               /\ \A k \in DOMAIN old \ DOMAIN call'.result : new[k] = old[k]
               /\ (DOMAIN call'.result = {} => new = old)]_vars

\* C8 witness: a completed Job keeps a key that its last call did not carry
C8_Witness ==
    /\ 1 \in DOMAIN store
    /\ call.status = COMPLETED
    /\ DOMAIN call.result = {"message"}
    /\ DOMAIN store[1].result = {"step", "message"}

\* progress order of the step labels and of the stages
StepRank(label) ==
    CASE label = StepDownloading -> 1
      [] label = StepExtracting -> 2
      [] label \in TranscribingLabels -> 3
      [] label = StepCompleted -> 4
      [] OTHER -> 0

StageRank(stage) ==
    CASE stage = "download" -> 1
      [] stage = "extract" -> 2
      [] stage \in {"transcribe", "persist"} -> 3
      [] OTHER -> 0

TryPositions ==
    {"source", "download", "add_video", "link_video", "extract", "extract_run",
     "transcribe", "transcribe_run", "save", "update_video", "complete"}

\* C10: with Jobs running side by side, a step changes a Job's row only if it
\* is a step of that Job's own task; a Job is failed only when its own run
\* raised, and a Job whose own run raised nothing ends completed with no
\* error, whatever happened to the other Job.
C10_JobsIsolated ==
    [][/\ \A j \in DOMAIN store : store'[j] # store[j] => task'[j] # task[j]
       /\ \A j \in DOMAIN store' :
            /\ store'[j].status = FAILED
               => task'[j].pc = "done" /\ task'[j].raisedAt \in TryPositions
            /\ (task'[j].pc = "done" /\ task'[j].raisedAt = "none")
               => store'[j].status = COMPLETED /\ store'[j].error = None]_vars

\* C10 witness: two Jobs have run, one failed and the other completed
C10_Witness ==
    \E i \in DOMAIN store, j \in DOMAIN store :
        /\ i # j
        /\ store[i].status = FAILED
        /\ store[j].status = COMPLETED
-----------------------------------------------------------------------------
\* Text: a str is a sequence of one-character strings.  Indices follow
\* Python: the first character has index 0 and find/rfind answer -1 for
\* "not found".

\* the characters str.strip() and the regular expression \s take for
\* whitespace, among those the texts are made of
Whitespace == {" ", "\n"}

Digits == {"0", "1", "2", "3", "4", "5", "6", "7", "8", "9"}

Min(S) == CHOOSE x \in S : \A y \in S : x <= y
Max(S) == CHOOSE x \in S : \A y \in S : x >= y

\* s[:n] and s[n:]
Prefix(s, n) == SubSeq(s, 1, IF n < Len(s) THEN n ELSE Len(s))
Suffix(s, n) == SubSeq(s, n + 1, Len(s))

\* s[i:j]
Slice(s, i, j) == SubSeq(s, i + 1, j)

\* s.startswith(w, i)
StartsWith(s, w, i) ==
    /\ i >= 0
    /\ i + Len(w) <= Len(s)
    /\ SubSeq(s, i + 1, i + Len(w)) = w

\* the indices at which w occurs in s
Occurrences(s, w) == {i \in 0..(Len(s) - Len(w)) : StartsWith(s, w, i)}

\* w in s
Contains(s, w) == Occurrences(s, w) # {}

\* s.rfind(w)
rfind(s, w) == IF Contains(s, w) THEN Max(Occurrences(s, w)) ELSE -1

\* s.count(c) for a single character c
count(s, c) == Cardinality({i \in 1..Len(s) : s[i] = c})

RECURSIVE lstrip(_)
lstrip(s) == IF s # <<>> /\ Head(s) \in Whitespace THEN lstrip(Tail(s)) ELSE s

RECURSIVE rstrip(_)
rstrip(s) ==
    IF s # <<>> /\ s[Len(s)] \in Whitespace
    THEN rstrip(SubSeq(s, 1, Len(s) - 1))
    ELSE s

strip(s) == rstrip(lstrip(s))

\* c * n
Repeat(c, n) == [i \in 1..n |-> c]
-----------------------------------------------------------------------------
\* json.loads, as far as the texts need it: objects, arrays, strings
\* without escapes, unsigned integers, null/true/false.  A JSON value is a
\* record [t, v]: t its type, v its content (always a sequence).

JObj(members) == [t |-> "obj", v |-> members]   \* members: <<[k, v], ...>>
JArr(items) == [t |-> "arr", v |-> items]
JStr(chars) == [t |-> "str", v |-> chars]
JNum(digits) == [t |-> "num", v |-> digits]
JLit(name) == [t |-> "lit", v |-> name]

\* d[k] = v on a dict: a key already present keeps its place
DictPut(members, k, v) ==
    IF \E n \in 1..Len(members) : members[n].k = k
    THEN [n \in 1..Len(members) |->
            IF members[n].k = k THEN [k |-> k, v |-> v] ELSE members[n]]
    ELSE Append(members, [k |-> k, v |-> v])

\* d.get(k, default) on a JSON object
DictGet(obj, k, default) ==
    IF \E n \in 1..Len(obj.v) : obj.v[n].k = k
    THEN obj.v[CHOOSE n \in 1..Len(obj.v) : obj.v[n].k = k].v
    ELSE default

\* the character at index i, "" past the end
At(s, i) == IF i >= 0 /\ i < Len(s) THEN s[i + 1] ELSE ""

RECURSIVE skip_ws(_, _)
skip_ws(s, i) == IF At(s, i) \in Whitespace THEN skip_ws(s, i + 1) ELSE i

\* json.JSONDecodeError, and a value scanned up to index end
JSONDecodeError == [ok |-> FALSE]
Scanned(v, end) == [ok |-> TRUE, v |-> v, end |-> end]

\* a string literal opening at index i: it runs to the next quote and holds
\* no control character
scan_string(s, i) ==
    LET closes == {j \in (i + 1)..(Len(s) - 1) : s[j + 1] = "\""}
    IN  IF closes = {}
        THEN JSONDecodeError
        ELSE LET j == Min(closes)
                 body == Slice(s, i + 1, j)
             IN  IF \E n \in 1..Len(body) : body[n] = "\n"
                 THEN JSONDecodeError
                 ELSE Scanned(JStr(body), j + 1)

RECURSIVE digits_end(_, _)
digits_end(s, i) == IF At(s, i) \in Digits THEN digits_end(s, i + 1) ELSE i

\* a number opening at index i: 0, or a run of digits not led by 0
scan_number(s, i) ==
    LET end == IF At(s, i) = "0" THEN i + 1 ELSE digits_end(s, i)
    IN  Scanned(JNum(Slice(s, i, end)), end)

Null == <<"n", "u", "l", "l">>
True == <<"t", "r", "u", "e">>
False == <<"f", "a", "l", "s", "e">>

RECURSIVE scan_once(_, _)
RECURSIVE scan_array(_, _, _)
RECURSIVE scan_object(_, _, _)

\* the value opening at index i
scan_once(s, i) ==
    LET c == At(s, i)
    IN  CASE c = "\"" -> scan_string(s, i)
          [] c = "{" ->
                LET j == skip_ws(s, i + 1)
                IN  IF At(s, j) = "}"
                    THEN Scanned(JObj(<<>>), j + 1)
                    ELSE scan_object(s, j, <<>>)
          [] c = "[" ->
                LET j == skip_ws(s, i + 1)
                IN  IF At(s, j) = "]"
                    THEN Scanned(JArr(<<>>), j + 1)
                    ELSE scan_array(s, j, <<>>)
          [] c \in Digits -> scan_number(s, i)
          [] StartsWith(s, Null, i) -> Scanned(JLit(Null), i + 4)
          [] StartsWith(s, True, i) -> Scanned(JLit(True), i + 4)
          [] StartsWith(s, False, i) -> Scanned(JLit(False), i + 5)
          [] OTHER -> JSONDecodeError

\* the items of an array from index i on, items holding those before
scan_array(s, i, items) ==
    LET r == scan_once(s, i)
    IN  IF ~r.ok
        THEN JSONDecodeError
        ELSE LET j == skip_ws(s, r.end)
                 all == Append(items, r.v)
             IN  CASE At(s, j) = "]" -> Scanned(JArr(all), j + 1)
                   [] At(s, j) = "," -> scan_array(s, skip_ws(s, j + 1), all)
                   [] OTHER -> JSONDecodeError

\* the members of an object from index i on, members holding those before
scan_object(s, i, members) ==
    IF At(s, i) # "\""
    THEN JSONDecodeError
    ELSE
    LET key == scan_string(s, i)
    IN  IF ~key.ok
        THEN JSONDecodeError
        ELSE
        LET j == skip_ws(s, key.end)
        IN  IF At(s, j) # ":"
            THEN JSONDecodeError
            ELSE
            LET r == scan_once(s, skip_ws(s, j + 1))
            IN  IF ~r.ok
                THEN JSONDecodeError
                ELSE
                LET n == skip_ws(s, r.end)
                    all == DictPut(members, key.v.v, r.v)
                IN  CASE At(s, n) = "}" -> Scanned(JObj(all), n + 1)
                      [] At(s, n) = "," -> scan_object(s, skip_ws(s, n + 1), all)
                      [] OTHER -> JSONDecodeError

\* json.loads(s): one value, whitespace around it, nothing else
json_loads(s) ==
    LET r == scan_once(s, skip_ws(s, 0))
    IN  IF r.ok /\ skip_ws(s, r.end) = Len(s)
        THEN [ok |-> TRUE, v |-> r.v]
        ELSE JSONDecodeError
-----------------------------------------------------------------------------
\* _parse_json_response and _try_fix_incomplete_json (llm/client.py)

\* the backtick, a character a TLA+ string cannot hold, is written "~"
Fence == <<"~", "~", "~">>
FenceJson == <<"~", "~", "~", "j", "s", "o", "n">>
CloseFence == <<"\n", "~", "~", "~">>
KeyClips == <<"\"", "c", "l", "i", "p", "s", "\"", ":">>
KeyKeyPoints == <<"\"", "k", "e", "y", "_", "p", "o", "i", "n", "t", "s", "\"", ":">>

NoMatch == [found |-> FALSE]
Match(group) == [found |-> TRUE, group |-> group]

\* the newline the pattern's \n takes when the opening marker ends at index
\* a: \s* is greedy, so the last newline of the whitespace run that still
\* leaves a closing fence to find (closed), or the last one (not closed)
FenceNewlines(s, a, closed) ==
    {p \in a..(skip_ws(s, a) - 1) :
        /\ s[p + 1] = "\n"
        /\ closed => \E c \in Occurrences(s, CloseFence) : c >= p + 1}

\* re.search(marker\s*\n([\s\S]*?)\n```, s) when closed,
\* re.search(marker\s*\n([\s\S]*), s) when not: group(1) of the leftmost match
search_fence(s, marker, closed) ==
    LET starts == {i \in Occurrences(s, marker) :
                      FenceNewlines(s, i + Len(marker), closed) # {}}
    IN  IF starts = {}
        THEN NoMatch
        ELSE LET i == Min(starts)
                 p == Max(FenceNewlines(s, i + Len(marker), closed))
             IN  IF closed
                 THEN Match(Slice(s, p + 1,
                        Min({c \in Occurrences(s, CloseFence) : c >= p + 1})))
                 ELSE Match(Suffix(s, p + 1))

\* json_patterns, in the order they are tried
json_patterns ==
    << [marker |-> FenceJson, closed |-> TRUE],
       [marker |-> Fence, closed |-> TRUE],
       [marker |-> FenceJson, closed |-> FALSE],
       [marker |-> Fence, closed |-> FALSE] >>

\* re.sub(r'```\s*$', '', s) on a stripped s
sub_trailing_fence(s) ==
    IF StartsWith(s, Fence, Len(s) - 3) THEN Prefix(s, Len(s) - 3) ELSE s

\* re.search(r'\{[\s\S]*\}', s): group(0), from the first { to the last }
search_braces(s) ==
    LET opens == Occurrences(s, <<"{">>)
        closes == Occurrences(s, <<"}">>)
    IN  IF opens = {} \/ closes = {} \/ Max(closes) < Min(opens)
        THEN NoMatch
        ELSE Match(Slice(s, Min(opens), Max(closes) + 1))

\* ']' * n and '}' * n: nothing when n is not positive
Closers(c, n) == IF n > 0 THEN Repeat(c, n) ELSE <<>>

\* the candidate cut back to its last '},' when it holds a known array key
TruncateToLastElement(fixed) ==
    IF Contains(fixed, KeyClips) \/ Contains(fixed, KeyKeyPoints)
    THEN LET first == rfind(fixed, <<"}", ",">>)
             last_complete == IF first = -1
                              THEN rfind(fixed, <<"\"", "}", ",">>)
                              ELSE first
         IN  IF last_complete > 0 THEN Prefix(fixed, last_complete + 1) ELSE fixed
    ELSE fixed

\* the closing quote appended when the candidate ends inside a string
CloseString(fixed) ==
    IF /\ fixed # <<>>
       /\ fixed[Len(fixed)] \notin {"\"", ",", "}", "]"}
       /\ count(fixed, "\"") % 2 = 1
    THEN Append(fixed, "\"")
    ELSE fixed

_try_fix_incomplete_json(json_str) ==
    LET fixed == TruncateToLastElement(rstrip(json_str))
        open_braces == count(fixed, "{") - count(fixed, "}")
        open_brackets == count(fixed, "[") - count(fixed, "]")
    IN  CloseString(fixed) \o Closers("]", open_brackets) \o Closers("}", open_braces)

\* json.loads of a candidate, then of its repair
loads_or_fix(candidate) ==
    LET strict == json_loads(candidate)
        fixed == _try_fix_incomplete_json(candidate)
    IN  IF strict.ok
        THEN strict
        ELSE IF fixed # <<>> THEN json_loads(fixed) ELSE JSONDecodeError

\* the candidate a fenced-block pattern gives, if it matches
FenceCandidate(response, pattern) ==
    LET m == search_fence(response, pattern.marker, pattern.closed)
    IN  IF m.found
        THEN Match(strip(sub_trailing_fence(strip(m.group))))
        ELSE NoMatch

ErrorPrefix ==
    <<"F", "a", "i", "l", "e", "d", " ", "t", "o", " ", "p", "a", "r", "s", "e",
      " ", "J", "S", "O", "N", " ", "f", "r", "o", "m", " ", "r", "e", "s", "p",
      "o", "n", "s", "e", ":", " ">>

\* the length the error message cuts the response to
ExcerptLimit == 500

excerpt_Whole(response) == response

\* response[:500]
excerpt(response) == Prefix(response, ExcerptLimit)

Returned(v, via) == [kind |-> "return", value |-> v, via |-> via]
LLMClientError(message) == [kind |-> "LLMClientError", message |-> message]

\* the outcome of the strategies from number n on (1..4: json_patterns[n],
\* 5: the brace scan), the direct parse having failed
RECURSIVE parse_from(_, _)
parse_from(response, n) ==
    IF n <= Len(json_patterns)
    THEN LET c == FenceCandidate(response, json_patterns[n])
             r == IF c.found THEN loads_or_fix(c.group) ELSE JSONDecodeError
         IN  IF r.ok THEN Returned(r.v, "fence") ELSE parse_from(response, n + 1)
    ELSE LET m == search_braces(response)
             r == IF m.found THEN loads_or_fix(m.group) ELSE JSONDecodeError
         IN  IF r.ok
             THEN Returned(r.v, "braces")
             ELSE LLMClientError(ErrorPrefix \o excerpt(response))

_parse_json_response_NoDirect(text) == parse_from(strip(text), 1)

_parse_json_response(text) ==
    LET response == strip(text)
        direct == json_loads(response)
    IN  IF direct.ok THEN Returned(direct.v, "direct") ELSE parse_from(response, 1)
-----------------------------------------------------------------------------
\* The texts the extractor is applied to: a JSON document, whole or cut off
\* after some of its characters, behind an optional fence marker, between
\* optional prose.

\* the keys of the arrays a response is asked for
Clips == <<"c", "l", "i", "p", "s">>
Key_points == <<"k", "e", "y", "_", "p", "o", "i", "n", "t", "s">>

\* number of elements of the clips document
DocClips == 3

Titles == <<"A", "B", "C", "D", "E", "F">>

\* the n-th clip of the clips document (n-1 is its start)
ClipElement(n) ==
    <<"{", "\"", "s", "t", "a", "r", "t", "\"", ":">> \o <<ToString(n - 1)>> \o <<",", "\"", "t", "i", "t", "l", "e", "\"", ":", "\"">> \o <<Titles[n]>> \o <<"\"", "}">>

ClipsHead == <<"{", "\"", "c", "l", "i", "p", "s", "\"", ":", " ", "[">>
ClipsTail == <<"]", "}">>

RECURSIVE JoinElements(_)
JoinElements(n) ==
    IF n = 0 THEN <<>>
    ELSE IF n = 1 THEN ClipElement(1)
    ELSE JoinElements(n - 1) \o <<",">> \o ClipElement(n)

\* {"clips": [{"start":0,"title":"A"},{"start":1,"title":"B"},...]}
ClipsDoc == ClipsHead \o JoinElements(DocClips) \o ClipsTail

\* the index at which the n-th clip begins in ClipsDoc, and the one past its }
ClipStart(n) == Len(ClipsHead \o JoinElements(n - 1)) + (IF n > 1 THEN 1 ELSE 0)
ClipEnd(n) == Len(ClipsHead \o JoinElements(n))

\* {"summary":"s","key_points":["ab","cd","ef"]}
KeyPoints == <<<<"\"", "a", "b", "\"">>, <<"\"", "c", "d", "\"">>, <<"\"", "e", "f", "\"">>>>
KeyPointsHead == <<"{", "\"", "s", "u", "m", "m", "a", "r", "y", "\"", ":", "\"", "s", "\"", ",", "\"", "k", "e", "y", "_", "p", "o", "i", "n", "t", "s", "\"", ":", "[">>
KeyPointsDoc ==
    KeyPointsHead \o KeyPoints[1] \o <<",">> \o KeyPoints[2] \o <<",">>
        \o KeyPoints[3] \o ClipsTail

\* the index at which the n-th key point begins, and the one past its quote
KeyPointStart(n) == Len(KeyPointsHead) + 5 * (n - 1)
KeyPointEnd(n) == KeyPointStart(n) + 4

\* documents that are valid JSON but not all objects
SmallObject == <<"{", "\"", "a", "\"", ":", "1", "}">>
ObjectArray == <<"[", "{", "\"", "a", "\"", ":", "1", "}", ",", "{", "\"", "b", "\"", ":", "2", "}", "]">>
NumberArray == <<"[", "1", "]">>
Number == <<"5">>
String == <<"\"", "a", "\"">>

\* a response that holds no JSON at all, n characters long
Prose(n) == Repeat("x", n)

\* the documents cut at every length, the others whole
CutDocs == {ClipsDoc, KeyPointsDoc}
WholeDocs ==
    {SmallObject, ObjectArray, NumberArray, Number, String, Null}
        \cup {Prose(n) : n \in {ExcerptLimit - 1, ExcerptLimit, ExcerptLimit + 1}}

Leads == {<<>>, <<" ", "\n">>, <<"H", "e", "r", "e", ":", "\n">>}
FenceMarkers == {<<>>, FenceJson \o <<"\n">>, Fence \o <<"\n">>}
Trails == {<<>>, <<"\n">>, CloseFence, <<"\n", "D", "o", "n", "e", ".">>}

Response(d, c, lead, marker, trail) ==
    [pc |-> "response", doc |-> d, cut |-> c, lead |-> lead, marker |-> marker,
     trail |-> trail, text |-> lead \o marker \o Prefix(d, c) \o trail,
     out |-> [kind |-> "none"]]

Responses ==
    UNION {{Response(d, c, lead, marker, trail) :
                c \in 0..Len(d),
                lead \in Leads, marker \in FenceMarkers, trail \in Trails} :
            d \in CutDocs}
    \cup
    {Response(d, Len(d), lead, marker, trail) :
        d \in WholeDocs, lead \in Leads, marker \in FenceMarkers, trail \in Trails}

\* nothing of the pipeline is running
PipelineIdle ==
    /\ store = [j \in {} |-> NewJob]
    /\ PipelineRest

ExtractInit ==
    /\ PipelineIdle
    /\ llm = NoLlm
    /\ batch = NoBatch
    /\ norm = NoNorm
    /\ chat = NoChat
    /\ srt = NoSrt
    /\ ext \in Responses

\* _parse_json_response(response)
Extract ==
    /\ ext.pc = "response"
    /\ ext' = [ext EXCEPT !.pc = "done", !.out = _parse_json_response(ext.text)]
    /\ UNCHANGED <<pipeline, llm, batch, norm, chat, srt>>

ExtractSpec == ExtractInit /\ [][Extract]_vars
-----------------------------------------------------------------------------
\* _try_fix_incomplete_json on its own: the candidates are valid JSON objects
\* cut short.

\* {"a":[1,{"b":"x,y"}],"c":"q\"r"}
NestedDoc ==
    <<"{", "\"", "a", "\"", ":", "[", "1", ",", "{", "\"", "b", "\"", ":", "\"", "x", ",", "y", "\"", "}", "]", ",", "\"", "c", "\"", ":", "\"", "q", "\\", "\"", "r", "\"", "}">>

RepairDocs == CutDocs \cup {NestedDoc}

RepairInit ==
    /\ PipelineIdle
    /\ llm = NoLlm
    /\ batch = NoBatch
    /\ norm = NoNorm
    /\ chat = NoChat
    /\ srt = NoSrt
    /\ \E d \in RepairDocs :
        \E c \in 0..(Len(d) - 1) :
            ext = [pc |-> "candidate", text |-> Prefix(d, c), out |-> <<>>]

\* fixed = _try_fix_incomplete_json(json_str)
Repair ==
    /\ ext.pc = "candidate"
    /\ ext' = [ext EXCEPT !.pc = "fixed", !.out = _try_fix_incomplete_json(ext.text)]
    /\ UNCHANGED <<pipeline, llm, batch, norm, chat, srt>>

RepairSpec == RepairInit /\ [][Repair]_vars
-----------------------------------------------------------------------------
\* OpenRouterClient.complete / complete_json and GoogleAIClient.complete /
\* complete_json (llm/client.py): the two clients run the same loop.

\* the defaults of complete(max_retries, retry_delay), the ones complete_json
\* runs with
DefaultMaxRetries == 3
DefaultRetryDelay == 1

\* the largest max_retries a caller of complete passes
MaxRetriesArg == 3
RetryDelays == {0, 1, 2}

\* what the service answers to a complete_json request
ServiceTexts == {SmallObject, Prefix(SmallObject, 4), Prose(3)}

\* _parse_json_response on each of them
ParsedServiceText == [text \in ServiceTexts |-> _parse_json_response(text)]

Terminated == llm.pc \in {"returned", "raised"}

\* complete(...) is called, or complete_json(...), which calls it with the
\* defaults; _get_client() raises when there is no key or no package
complete_call ==
    /\ llm.pc = "none"
    /\ \E json \in BOOLEAN, max_retries \in 0..MaxRetriesArg,
          retry_delay \in RetryDelays, client \in BOOLEAN :
        /\ json => max_retries = DefaultMaxRetries /\ retry_delay = DefaultRetryDelay
        /\ llm' = [pc |-> IF client THEN "loop" ELSE "raised",
                   json |-> json,
                   max_retries |-> max_retries,
                   retry_delay |-> retry_delay,
                   attempt |-> 0,
                   requests |-> 0,
                   sleeps |-> <<>>,
                   answered |-> FALSE,
                   response |-> <<>>,
                   raised_at |-> IF client THEN None ELSE "_get_client",
                   out |-> IF client
                           THEN [kind |-> "none"]
                           ELSE LLMClientError("API key is required")]
    /\ UNCHANGED <<pipeline, batch, ext, norm, chat, srt>>

backoff_Constant(retry_delay, attempt) == retry_delay

\* retry_delay * (attempt + 1)
backoff(retry_delay, attempt) == retry_delay * (attempt + 1)

\* one pass of the loop body: the request is sent; it answers, or raises and
\* the exception is kept in last_error
Request ==
    /\ llm.pc = "loop"
    /\ llm.attempt < llm.max_retries
    /\ \/ \E text \in ServiceTexts :
            llm' = [llm EXCEPT !.requests = @ + 1,
                               !.answered = TRUE,
                               !.response = text,
                               !.pc = IF llm.json THEN "parse" ELSE "returned",
                               !.out = IF llm.json
                                       THEN @ ELSE Returned(text, "complete")]
       \/ llm' = [llm EXCEPT !.requests = @ + 1,
                             !.pc = IF llm.attempt < llm.max_retries - 1
                                    THEN "sleep" ELSE "loop",
                             !.attempt = IF llm.attempt < llm.max_retries - 1
                                         THEN @ ELSE @ + 1]
    /\ UNCHANGED <<pipeline, batch, ext, norm, chat, srt>>

\* time.sleep(retry_delay * (attempt + 1)), then the next pass
Sleep ==
    /\ llm.pc = "sleep"
    /\ llm' = [llm EXCEPT !.sleeps = Append(@, backoff(llm.retry_delay, llm.attempt)),
                          !.attempt = @ + 1,
                          !.pc = "loop"]
    /\ UNCHANGED <<pipeline, batch, ext, norm, chat, srt>>

\* the loop is over: raise LLMClientError("API call failed after ... retries")
RaiseAfterRetries ==
    /\ llm.pc = "loop"
    /\ llm.attempt >= llm.max_retries
    /\ llm' = [llm EXCEPT !.pc = "raised",
                          !.raised_at = "complete",
                          !.out = LLMClientError("API call failed after retries")]
    /\ UNCHANGED <<pipeline, batch, ext, norm, chat, srt>>

ParseResponse_Reissue ==
    /\ llm.pc = "parse"
    /\ LET r == ParsedServiceText[llm.response]
       IN  llm' = IF r.kind = "return"
                  THEN [llm EXCEPT !.pc = "returned", !.out = r]
                  ELSE [llm EXCEPT !.pc = "loop",
                                   !.attempt = IF @ < llm.max_retries - 1
                                               THEN @ + 1 ELSE 0]
    /\ UNCHANGED <<pipeline, batch, ext, norm, chat, srt>>

\* complete_json: return _parse_json_response(response)
ParseResponse ==
    /\ llm.pc = "parse"
    /\ LET r == ParsedServiceText[llm.response]
       IN  llm' = [llm EXCEPT !.pc = IF r.kind = "return" THEN "returned" ELSE "raised",
                              !.raised_at = IF r.kind = "return"
                                            THEN @ ELSE "_parse_json_response",
                              !.out = r]
    /\ UNCHANGED <<pipeline, batch, ext, norm, chat, srt>>

LlmInit ==
    /\ PipelineIdle
    /\ LibIdle

LlmNext ==
    \/ complete_call
    \/ Request
    \/ Sleep
    \/ RaiseAfterRetries
    \/ ParseResponse

LlmSpec == LlmInit /\ [][LlmNext]_vars

\* the thread that runs the call keeps running
LlmFairSpec == LlmSpec /\ WF_vars(LlmNext)
-----------------------------------------------------------------------------
\* POST /api/extract-clips (api/main.py) cutting the clips it found with
\* clip_extractor.extract_clips, which calls extract_clip once per clip.

\* the largest number of clips a request cuts
MaxClips == 5

\* output_dir / "clip_{index:02d}_{title}.mp4"
ClipPath(i) == "clip_0" \o ToString(i) \o ".mp4"

\* what one extract_clip call does: it returns the path, raises
\* ClipExtractionError (ffmpeg failed, or is not installed), or raises
\* something else (FileNotFoundError for the video, OSError from mkdir)
CutOutcomes == {"ok", "ClipExtractionError", "OSError"}

\* the request found n clips: with none there is nothing to cut
extract_clips_endpoint ==
    /\ batch.pc = "none"
    /\ \E n \in 0..MaxClips, merge \in BOOLEAN :
        batch' = [pc |-> IF n = 0 THEN "respond" ELSE "cutting",
                  clips |-> n,
                  merge |-> merge,
                  outcomes |-> <<>>,
                  extracted_paths |-> <<>>,
                  returned |-> FALSE,
                  output_clips |-> <<>>,
                  code |-> None]
    /\ UNCHANGED <<pipeline, llm, ext, norm, chat, srt>>

on_ClipExtractionError_Abort(b) == [b EXCEPT !.pc = "respond"]

\* except ClipExtractionError: print a warning, go on with the next clip
on_ClipExtractionError(b) == b

\* the loop body of extract_clips for the next clip
extract_clip ==
    /\ batch.pc = "cutting"
    /\ Len(batch.outcomes) < batch.clips
    /\ \E outcome \in CutOutcomes :
        LET i == Len(batch.outcomes) + 1
            b == [batch EXCEPT !.outcomes = Append(@, outcome)]
        IN  batch' =
                CASE outcome = "ok" ->
                        [b EXCEPT !.extracted_paths = Append(@, ClipPath(i))]
                  [] outcome = "ClipExtractionError" -> on_ClipExtractionError(b)
                  \* not caught in extract_clips: the endpoint's
                  \* "except Exception" prints it and answers without files
                  [] OTHER -> [b EXCEPT !.pc = "respond"]
    /\ UNCHANGED <<pipeline, llm, ext, norm, chat, srt>>

\* return extracted_paths; the endpoint keeps the list as output_clips
extract_clips_return ==
    /\ batch.pc = "cutting"
    /\ Len(batch.outcomes) = batch.clips
    /\ batch' = [batch EXCEPT !.returned = TRUE,
                              !.output_clips = batch.extracted_paths,
                              !.pc = IF batch.merge /\ Len(batch.extracted_paths) > 1
                                     THEN "merge" ELSE "respond"]
    /\ UNCHANGED <<pipeline, llm, ext, norm, chat, srt>>

\* merge_clips(extracted, ...): it returns and the merged file is appended
\* to the list, or it raises and the endpoint prints the exception
merge ==
    /\ batch.pc = "merge"
    /\ \E merged \in BOOLEAN :
        batch' = [batch EXCEPT !.pc = "respond",
                               !.output_clips = IF merged
                                                THEN Append(@, "merged.mp4") ELSE @]
    /\ UNCHANGED <<pipeline, llm, ext, norm, chat, srt>>

\* return {"clips": ..., "extracted_files": output_clips, ...}
respond ==
    /\ batch.pc = "respond"
    /\ batch' = [batch EXCEPT !.pc = "responded", !.code = "200"]
    /\ UNCHANGED <<pipeline, llm, ext, norm, chat, srt>>

BatchInit ==
    /\ PipelineIdle
    /\ LibIdle

BatchNext ==
    \/ extract_clips_endpoint
    \/ extract_clip
    \/ extract_clips_return
    \/ merge
    \/ respond

BatchSpec == BatchInit /\ [][BatchNext]_vars
-----------------------------------------------------------------------------
\* VideoSummarizer.extract_clips (llm/summarizer.py) from the response of
\* complete_json on, with Clip.from_dict (llm/models.py).  Times are whole
\* seconds.

\* the defaults of extract_clips(min_duration, max_duration)
DefaultMinDuration == 10
DefaultMaxDuration == 120

\* the largest number of candidates in a response
MaxRaw == 2

KeyStart == <<"s", "t", "a", "r", "t">>
KeyEnd == <<"e", "n", "d">>
KeyTitle == <<"t", "i", "t", "l", "e">>
KeyImportance == <<"i", "m", "p", "o", "r", "t", "a", "n", "c", "e">>
Untitled == <<"U", "n", "t", "i", "t", "l", "e", "d">>

\* the value of a decimal numeral
RECURSIVE ToNat(_)
ToNat(digits) ==
    IF digits = <<>> THEN 0
    ELSE 10 * ToNat(SubSeq(digits, 1, Len(digits) - 1))
         + (CHOOSE d \in 0..9 : ToString(d) = digits[Len(digits)])

\* float(x) / int(x) of a JSON value: of a number, of a string that reads as
\* one, of true and false
IsNumeral(chars) == chars # <<>> /\ \A i \in 1..Len(chars) : chars[i] \in Digits
Numeric(x) ==
    \/ x.t = "num"
    \/ x.t = "str" /\ IsNumeral(x.v)
    \/ x.t = "lit" /\ x.v \in {True, False}
ToNumber(x) ==
    IF x.t = "lit" THEN (IF x.v = True THEN 1 ELSE 0) ELSE ToNat(x.v)

Raised(exception) == [raised |-> exception]

\* Clip.from_dict(data)
from_dict(data) ==
    IF data.t # "obj"
    THEN Raised("TypeError")
    ELSE
    LET absent == JLit(<<>>)
        start == DictGet(data, KeyStart, absent)
        end == DictGet(data, KeyEnd, absent)
        title == DictGet(data, KeyTitle, JStr(Untitled))
        importance == DictGet(data, KeyImportance, JNum(<<"5">>))
    IN  CASE start = absent -> Raised("KeyError")
          [] ~Numeric(start) ->
                Raised(IF start.t = "str" THEN "ValueError" ELSE "TypeError")
          [] end = absent -> Raised("KeyError")
          [] ~Numeric(end) ->
                Raised(IF end.t = "str" THEN "ValueError" ELSE "TypeError")
          [] ~Numeric(importance) ->
                Raised(IF importance.t = "str" THEN "ValueError" ELSE "TypeError")
          [] OTHER ->
                [raised |-> None,
                 start |-> ToNumber(start),
                 end |-> ToNumber(end),
                 title |-> title,
                 importance |-> ToNumber(importance)]

\* Clip.duration
duration(clip) == clip.end - clip.start

clamp_Unchanged(clip, min_duration, max_duration) == clip

\* the duration constraints: a clip within them is kept as it is, a short one
\* is extended, a long one truncated
clamp(clip, min_duration, max_duration) ==
    IF min_duration <= duration(clip) /\ duration(clip) <= max_duration
    THEN clip
    ELSE IF duration(clip) < min_duration
    THEN [clip EXCEPT !.end = clip.start + min_duration]
    ELSE [clip EXCEPT !.end = clip.start + max_duration]

\* the loop over raw_clips from candidate n on, clips holding the Clips so
\* far: KeyError and ValueError skip the candidate, anything else propagates
RECURSIVE build_clips(_, _, _, _, _)
build_clips(raw_clips, n, clips, min_duration, max_duration) ==
    IF n > Len(raw_clips)
    THEN [raised |-> None, clips |-> clips]
    ELSE LET clip == from_dict(raw_clips[n])
         IN  IF clip.raised \in {"KeyError", "ValueError"}
             THEN build_clips(raw_clips, n + 1, clips, min_duration, max_duration)
             ELSE IF clip.raised # None
             THEN [raised |-> clip.raised, clips |-> clips]
             ELSE build_clips(raw_clips, n + 1,
                     Append(clips, clamp(clip, min_duration, max_duration)),
                     min_duration, max_duration)

\* a sort that puts a clip ahead of the equally important ones before it
RECURSIVE sort_by_importance_Unstable(_)
sort_by_importance_Unstable(clips) ==
    IF clips = <<>>
    THEN <<>>
    ELSE LET sorted == sort_by_importance_Unstable(SubSeq(clips, 1, Len(clips) - 1))
             last == clips[Len(clips)]
             ahead == Cardinality({i \in 1..Len(sorted) :
                                      sorted[i].importance > last.importance})
         IN  SubSeq(sorted, 1, ahead) \o <<last>> \o SubSeq(sorted, ahead + 1, Len(sorted))

\* clips.sort(key=lambda c: c.importance, reverse=True): the sort is stable,
\* so a clip goes behind every clip sorted before it that is no less
\* important
RECURSIVE sort_by_importance(_)
sort_by_importance(clips) ==
    IF clips = <<>>
    THEN <<>>
    ELSE LET sorted == sort_by_importance(SubSeq(clips, 1, Len(clips) - 1))
             last == clips[Len(clips)]
             ahead == Cardinality({i \in 1..Len(sorted) :
                                      sorted[i].importance >= last.importance})
         IN  SubSeq(sorted, 1, ahead) \o <<last>> \o SubSeq(sorted, ahead + 1, Len(sorted))

\* extract_clips once complete_json has returned response
normalize(response, num_clips, min_duration, max_duration) ==
    LET raw_clips == DictGet(response, Clips, JArr(<<>>)).v
        built == build_clips(raw_clips, 1, <<>>, min_duration, max_duration)
    IN  IF built.raised # None
        THEN [raised |-> built.raised, ranked |-> <<>>, clips |-> <<>>]
        ELSE [raised |-> None,
              ranked |-> sort_by_importance(built.clips),
              clips |-> Prefix(sort_by_importance(built.clips), num_clips)]

\* the candidates a response holds
RECURSIVE Numeral(_)
Numeral(n) ==
    IF n < 10 THEN <<ToString(n)>> ELSE Append(Numeral(n \div 10), ToString(n % 10))

Candidate(start, end, importance) ==
    JObj(<<[k |-> KeyStart, v |-> JNum(Numeral(start))],
           [k |-> KeyEnd, v |-> JNum(Numeral(end))],
           [k |-> KeyImportance, v |-> JNum(Numeral(importance))]>>)

\* a candidate that gives no start
NoStart == JObj(<<[k |-> KeyEnd, v |-> JNum(Numeral(20))]>>)

\* candidates whose start is null and whose end is no number, and one that
\* is a string instead of an object
NullStart ==
    JObj(<<[k |-> KeyStart, v |-> JLit(Null)], [k |-> KeyEnd, v |-> JNum(Numeral(20))]>>)
TextEnd ==
    JObj(<<[k |-> KeyStart, v |-> JNum(Numeral(0))],
           [k |-> KeyEnd, v |-> JStr(<<"s", "o", "o", "n">>)]>>)
NotMapping == JStr(<<"c", "l", "i", "p">>)

Candidates ==
    {Candidate(start, end, importance) :
        start \in {0, 10}, end \in {5, 20, 300}, importance \in {3, 9}}
    \cup {NoStart, NullStart, TextEnd, NotMapping}

RawLists == UNION {[1..n -> Candidates] : n \in 0..MaxRaw}

\* (min_duration, max_duration): the defaults, and a single allowed duration
DurationBounds == {<<DefaultMinDuration, DefaultMaxDuration>>, <<5, 5>>}
NumClips == {1, 5}

NormInit ==
    /\ PipelineIdle
    /\ llm = NoLlm
    /\ batch = NoBatch
    /\ ext = NoExt
    /\ chat = NoChat
    /\ srt = NoSrt
    /\ \E raw \in RawLists, num_clips \in NumClips, bounds \in DurationBounds :
        norm = [pc |-> "response",
                response |-> JObj(<<[k |-> Clips, v |-> JArr(raw)]>>),
                num_clips |-> num_clips,
                min_duration |-> bounds[1],
                max_duration |-> bounds[2],
                out |-> [raised |-> None, ranked |-> <<>>, clips |-> <<>>]]

Normalize ==
    /\ norm.pc = "response"
    /\ norm' = [norm EXCEPT !.pc = "done",
                            !.out = normalize(norm.response, norm.num_clips,
                                              norm.min_duration, norm.max_duration)]
    /\ UNCHANGED <<pipeline, llm, batch, ext, chat, srt>>

NormSpec == NormInit /\ [][Normalize]_vars

\* Responses for the ranking: candidate n starts at second n and lasts 20 s,
\* so that every candidate survives and is told apart by its start

\* the largest number of candidates in such a response
MaxRanked == 4

Importances == {1, 3, 9, 11}
RequestedClips == {0, 2, 5}

RankedCandidates(importances) ==
    [n \in 1..Len(importances) |-> Candidate(n, n + 20, importances[n])]

RankLists == UNION {[1..n -> Importances] : n \in 0..MaxRanked}

RankInit ==
    /\ PipelineIdle
    /\ llm = NoLlm
    /\ batch = NoBatch
    /\ ext = NoExt
    /\ chat = NoChat
    /\ srt = NoSrt
    /\ \E importances \in RankLists, num_clips \in RequestedClips :
        norm = [pc |-> "response",
                response |-> JObj(<<[k |-> Clips,
                                     v |-> JArr(RankedCandidates(importances))]>>),
                num_clips |-> num_clips,
                min_duration |-> DefaultMinDuration,
                max_duration |-> DefaultMaxDuration,
                out |-> [raised |-> None, ranked |-> <<>>, clips |-> <<>>]]

RankSpec == RankInit /\ [][Normalize]_vars
-----------------------------------------------------------------------------
\* ChatSession (llm/chat.py).  The session is shared by the threads that
\* serve requests naming it (chat_sessions in api/main.py); a thread runs one
\* chat call at a time, statement by statement.  The n-th message sent to the
\* session is the number n, and the response to it says which message it
\* answers.

\* ChatSession.max_history
DefaultMaxHistory == 20

\* the number of chat calls made on a session by one caller, and by two
\* callers at the same time
MaxChats == 11
MaxPairChats == 3

MaxHistories == {2, DefaultMaxHistory}

ChatMessage(role, content) == [role |-> role, content |-> content]

\* a thread that is in no call
Idle == [pc |-> "idle", message |-> 0, context |-> <<>>, user_prompt |-> <<>>]

\* a ChatSession on construction, with the threads that may call it
ChatSession(max_history, threads, limit) ==
    [pc |-> "session",
     op |-> "__init__",
     max_history |-> max_history,
     history |-> <<>>,
     calls |-> 0,
     limit |-> limit,
     thread |-> [t \in threads |-> Idle]]

Threads == DOMAIN chat.thread

\* history[-max_history:]
LastEntries(history, max_history) ==
    LET from == IF max_history > 0
                THEN Max({Len(history) - max_history, 0})
                ELSE Min({0 - max_history, Len(history)})
    IN  SubSeq(history, from + 1, Len(history))

\* the entries _build_context puts into the prompt, were it to use the whole
\* history
_build_context_Whole(history, max_history) == history

\* the entries _build_context puts into the prompt
_build_context(history, max_history) ==
    IF history = <<>> THEN <<>> ELSE LastEntries(history, max_history)

\* chat(message), line 75: the user message goes into the history
chat_call(t) ==
    /\ chat.pc = "session"
    /\ chat.thread[t].pc = "idle"
    /\ chat.calls < chat.limit
    /\ chat' = [chat EXCEPT
                  !.op = "chat",
                  !.calls = @ + 1,
                  !.history = Append(@, ChatMessage("user", chat.calls + 1)),
                  !.thread[t] = [Idle EXCEPT !.pc = "appended",
                                             !.message = chat.calls + 1]]

\* line 78: context = self._build_context()
build_context(t) ==
    /\ chat.pc = "session"
    /\ chat.thread[t].pc = "appended"
    /\ chat' = [chat EXCEPT
                  !.op = "chat",
                  !.thread[t].pc = "context",
                  !.thread[t].context = _build_context(chat.history, chat.max_history)]

\* lines 82-85: the prompt carries the context if the history holds more
\* than this message
build_prompt(t) ==
    /\ chat.pc = "session"
    /\ chat.thread[t].pc = "context"
    /\ chat' = [chat EXCEPT
                  !.op = "chat",
                  !.thread[t].pc = "prompt",
                  !.thread[t].user_prompt =
                      IF Len(chat.history) > 1 THEN chat.thread[t].context ELSE <<>>]

\* lines 88-96: client.complete returns and the response goes into the history
complete_returns(t) ==
    /\ chat.pc = "session"
    /\ chat.thread[t].pc = "prompt"
    /\ chat' = [chat EXCEPT
                  !.op = "chat",
                  !.history = Append(@, ChatMessage("assistant", chat.thread[t].message)),
                  !.thread[t] = Idle]

\* line 88: client.complete raises, and so does chat
complete_raises(t) ==
    /\ chat.pc = "session"
    /\ chat.thread[t].pc = "prompt"
    /\ chat' = [chat EXCEPT !.op = "chat", !.thread[t] = Idle]

\* clear_history()
clear_history(t) ==
    /\ chat.pc = "session"
    /\ chat.thread[t].pc = "idle"
    /\ chat.history # <<>>
    /\ chat' = [chat EXCEPT !.op = "clear_history", !.history = <<>>]

ChatStep(t) ==
    \/ chat_call(t)
    \/ build_context(t)
    \/ build_prompt(t)
    \/ complete_returns(t)
    \/ complete_raises(t)
    \/ clear_history(t)

ChatNext ==
    /\ \E t \in Threads : ChatStep(t)
    /\ UNCHANGED <<pipeline, llm, batch, ext, norm, srt>>

ChatRest ==
    /\ PipelineIdle
    /\ llm = NoLlm
    /\ batch = NoBatch
    /\ ext = NoExt
    /\ norm = NoNorm
    /\ srt = NoSrt

\* one caller
ChatInit ==
    /\ ChatRest
    /\ \E max_history \in MaxHistories : chat = ChatSession(max_history, {1}, MaxChats)

ChatSpec == ChatInit /\ [][ChatNext]_vars

\* two callers
ChatPairInit ==
    /\ ChatRest
    /\ \E max_history \in MaxHistories : chat = ChatSession(max_history, {1, 2}, MaxPairChats)

ChatPairSpec == ChatPairInit /\ [][ChatNext]_vars
-----------------------------------------------------------------------------
\* SRT subtitles (transcription/srt_formatter.py).  A time is a record of its
\* whole seconds s (the floor of the time) and its microseconds us below one
\* second; binary floating point is not modelled.

\* the largest number of segments formatted at once
MaxSegments == 2

Time(s, us) == [s |-> s, us |-> us]

TranscriptionSegment(start, end, text) == [start |-> start, end |-> end, text |-> text]

\* f"{n:0{width}d}": at least width digits
Padded(n, width) ==
    LET digits == Numeral(n)
    IN  Repeat("0", Max({width - Len(digits), 0})) \o digits

\* format_timestamp(seconds)
format_timestamp(seconds) ==
    LET t == IF seconds.s < 0 THEN Time(0, 0) ELSE seconds
        hours == t.s \div 3600
        minutes == (t.s % 3600) \div 60
        secs == t.s % 60
        milliseconds == t.us \div 1000
    IN  Padded(hours, 2) \o <<":">> \o Padded(minutes, 2) \o <<":">>
        \o Padded(secs, 2) \o <<",">> \o Padded(milliseconds, 3)

Arrow == <<" ", "-", "-", ">", " ">>

\* format_segment_as_srt(index, segment)
format_segment_as_srt(index, segment) ==
    Numeral(index) \o <<"\n">>
    \o format_timestamp(segment.start) \o Arrow \o format_timestamp(segment.end) \o <<"\n">>
    \o segment.text \o <<"\n">>

\* separator.join(parts)
RECURSIVE join(_, _)
join(separator, parts) ==
    IF parts = <<>> THEN <<>>
    ELSE IF Len(parts) = 1 THEN parts[1]
    ELSE parts[1] \o separator \o join(separator, Tail(parts))

\* format_as_srt(segments)
format_as_srt(segments) ==
    join(<<"\n">>, [i \in 1..Len(segments) |-> format_segment_as_srt(i, segments[i])])

\* s.split('\n')
RECURSIVE split_lines(_)
split_lines(s) ==
    IF ~\E i \in 1..Len(s) : s[i] = "\n"
    THEN <<s>>
    ELSE LET i == Min({k \in 1..Len(s) : s[k] = "\n"})
         IN  <<SubSeq(s, 1, i - 1)>> \o split_lines(SubSeq(s, i + 1, Len(s)))

\* re.split(r'\n\n+', s)
RECURSIVE split_entries(_)
split_entries(s) ==
    LET blank == {k \in 1..(Len(s) - 1) : s[k] = "\n" /\ s[k + 1] = "\n"}
    IN  IF blank = {}
        THEN <<s>>
        ELSE LET i == Min(blank)
                 j == Min({k \in i..(Len(s) + 1) : k = Len(s) + 1 \/ s[k] # "\n"})
             IN  <<SubSeq(s, 1, i - 1)>> \o split_entries(SubSeq(s, j, Len(s)))

\* (\d{2}):(\d{2}):(\d{2}),(\d{3}) at index i of line (from 0)
StampAt(line, i) ==
    /\ i + 12 <= Len(line)
    /\ \A k \in {1, 2, 4, 5, 7, 8, 10, 11, 12} : line[i + k] \in Digits
    /\ line[i + 3] = ":"
    /\ line[i + 6] = ":"
    /\ line[i + 9] = ","

\* the seconds of the timestamp at index i, lines 133-138
StampSeconds(line, i) ==
    Time(ToNat(SubSeq(line, i + 1, i + 2)) * 3600
            + ToNat(SubSeq(line, i + 4, i + 5)) * 60
            + ToNat(SubSeq(line, i + 7, i + 8)),
         ToNat(SubSeq(line, i + 10, i + 12)) * 1000)

\* the index behind the white space from index i on
RECURSIVE skip_space(_, _)
skip_space(line, i) ==
    IF i < Len(line) /\ line[i + 1] \in Whitespace THEN skip_space(line, i + 1) ELSE i

NoTimes == [matched |-> FALSE]

\* re.match of the timestamp pattern on a line and the two times it gives
parse_timestamps(line) ==
    IF ~StampAt(line, 0)
    THEN NoTimes
    ELSE LET arrow == skip_space(line, 12)
             second == skip_space(line, arrow + 3)
         IN  IF StartsWith(line, <<"-", "-", ">">>, arrow) /\ StampAt(line, second)
             THEN [matched |-> TRUE,
                   start |-> StampSeconds(line, 0),
                   end |-> StampSeconds(line, second)]
             ELSE NoTimes

\* the loop of parse_srt over the entries from entry n on
RECURSIVE parse_entries(_, _, _)
parse_entries(entries, n, segments) ==
    IF n > Len(entries)
    THEN segments
    ELSE LET lines == split_lines(strip(entries[n]))
             times == IF Len(lines) < 3 THEN NoTimes ELSE parse_timestamps(lines[2])
         IN  IF ~times.matched
             THEN parse_entries(entries, n + 1, segments)
             ELSE parse_entries(entries, n + 1,
                     Append(segments,
                            TranscriptionSegment(times.start, times.end,
                                                 join(<<"\n">>, SubSeq(lines, 3, Len(lines))))))

\* parse_srt(content)
parse_srt(content) == parse_entries(split_entries(strip(content)), 1, <<>>)

\* the segments of a transcription: texts as the transcriber gives them, and
\* (start, end) spans with end >= start, up to the hundredth hour
SegmentTexts ==
    {<<"H", "i">>, <<>>, <<" ", "H", "i">>, <<"H", "i", " ">>,
     <<"a", "\n", "b">>, <<"a", "\n", "\n", "b">>}

Spans ==
    {<<Time(0, 0), Time(5, 500000)>>,
     <<Time(5, 500000), Time(5, 500000)>>,
     <<Time(1, 1500), Time(12, 300000)>>,
     <<Time(3661, 500000), Time(359999, 999500)>>,
     <<Time(359999, 999500), Time(360000, 0)>>}

SrtSegments ==
    {TranscriptionSegment(span[1], span[2], text) : span \in Spans, text \in SegmentTexts}

SegmentLists == UNION {[1..n -> SrtSegments] : n \in 0..MaxSegments}

SrtRest ==
    /\ PipelineIdle
    /\ llm = NoLlm
    /\ batch = NoBatch
    /\ ext = NoExt
    /\ norm = NoNorm
    /\ chat = NoChat

SrtInit ==
    /\ SrtRest
    /\ \E segments \in SegmentLists :
        srt = [pc |-> "segments", segments |-> segments, content |-> <<>>, parsed |-> <<>>]

\* srt_content = format_as_srt(segments)
FormatSegments ==
    /\ srt.pc = "segments"
    /\ srt' = [srt EXCEPT !.pc = "content", !.content = format_as_srt(srt.segments)]
    /\ UNCHANGED <<pipeline, llm, batch, ext, norm, chat>>

\* parse_srt(content)
ParseContent ==
    /\ srt.pc = "content"
    /\ srt' = [srt EXCEPT !.pc = "parsed", !.parsed = parse_srt(srt.content)]
    /\ UNCHANGED <<pipeline, llm, batch, ext, norm, chat>>

SrtNext ==
    \/ FormatSegments
    \/ ParseContent

SrtSpec == SrtInit /\ [][SrtNext]_vars

\* the times given to format_timestamp: around the minute, the hour and the
\* hundredth hour, on and between the milliseconds, and below zero
StampTimes ==
    {Time(s, us) :
        s \in {-5, -1, 0, 1, 59, 60, 3599, 3600, 3661, 359999, 360000, 3600000},
        us \in {0, 1, 999, 1000, 1500, 500000, 999999}}

StampInit ==
    /\ SrtRest
    /\ \E seconds \in StampTimes :
        srt = [pc |-> "seconds", seconds |-> seconds, stamp |-> <<>>, parsed |-> NoTimes]

\* format_timestamp(seconds)
FormatStamp ==
    /\ srt.pc = "seconds"
    /\ srt' = [srt EXCEPT !.pc = "stamp", !.stamp = format_timestamp(srt.seconds)]
    /\ UNCHANGED <<pipeline, llm, batch, ext, norm, chat>>

\* the timestamp read back as parse_srt reads the line "stamp --> stamp"
ParseStamp ==
    /\ srt.pc = "stamp"
    /\ srt' = [srt EXCEPT !.pc = "read",
                          !.parsed = parse_timestamps(srt.stamp \o Arrow \o srt.stamp)]
    /\ UNCHANGED <<pipeline, llm, batch, ext, norm, chat>>

StampNext ==
    \/ FormatStamp
    \/ ParseStamp

StampSpec == StampInit /\ [][StampNext]_vars
-----------------------------------------------------------------------------
\* Properties of the extractor

Extracted == ext.pc = "done"

\* the response is the document alone, cut off or whole
Bare == ext.lead = <<>> /\ ext.marker = <<>> /\ ext.trail = <<>>

\* the items of the array a returned object holds under key (<<>> if none)
ItemsUnder(key) ==
    IF ext.out.kind = "return" /\ ext.out.value.t = "obj"
    THEN LET a == DictGet(ext.out.value, key, JArr(<<>>))
         IN  IF a.t = "arr" THEN a.v ELSE <<a>>
    ELSE <<>>

\* the clips and key points the document holds whole within its first c
\* characters, as json.loads reads them
CompleteClips(c) == {n \in 1..DocClips : ClipEnd(n) <= c}
CompleteKeyPoints(c) == {n \in 1..Len(KeyPoints) : KeyPointEnd(n) <= c}
ClipValue(n) == json_loads(ClipElement(n)).v
KeyPointValue(n) == json_loads(KeyPoints[n]).v

\* the cut falls inside the n-th clip
CutInsideClip(n) == ClipStart(n) < ext.cut /\ ext.cut < ClipEnd(n)

\* C14: the extractor returns a JSON object or raises LLMClientError: it
\* never returns a list, a number, a string or null.
C14_MappingOrError ==
    Extracted =>
        \/ ext.out.kind = "LLMClientError"
        \/ ext.out.kind = "return" /\ ext.out.value.t = "obj"

\* C15: a clips object cut off inside its (k+1)-th element, k >= 1, is
\* recovered as the object holding exactly its first k clips.
C15_CompleteClipsRecovered ==
    \A n \in 2..DocClips :
        (Extracted /\ Bare /\ ext.doc = ClipsDoc /\ CutInsideClip(n)) =>
            /\ ext.out.kind = "return"
            /\ ext.out.value = JObj(<<[k |-> Clips,
                                      v |-> JArr([m \in 1..(n - 1) |-> ClipValue(m)])]>>)

\* C16: every clip and key point of a recovered result stands whole in the
\* text the extractor was given: no element cut off before its end is kept.
C16_OnlyCompleteElements ==
    Extracted =>
        /\ ext.doc = ClipsDoc =>
            \A i \in 1..Len(ItemsUnder(Clips)) :
                \E n \in CompleteClips(ext.cut) : ItemsUnder(Clips)[i] = ClipValue(n)
        /\ ext.doc = KeyPointsDoc =>
            \A i \in 1..Len(ItemsUnder(Key_points)) :
                \E n \in CompleteKeyPoints(ext.cut) :
                    ItemsUnder(Key_points)[i] = KeyPointValue(n)

C18_UnclosedFenceRecovered ==
    (/\ Extracted
     /\ ext.marker # <<>>
     /\ ext.trail # CloseFence
     /\ ext.cut = Len(ext.doc)
     /\ ext.doc \in {ClipsDoc, KeyPointsDoc, SmallObject}) =>
        /\ ext.out.kind = "return"
        /\ ext.out.value = json_loads(ext.doc).v

\* C19: the error the extractor raises carries the first ExcerptLimit
\* characters of the stripped response and no more.
C19_ErrorExcerptBounded ==
    (Extracted /\ ext.out.kind = "LLMClientError") =>
        /\ ext.out.message = ErrorPrefix \o Prefix(strip(ext.text), ExcerptLimit)
        /\ Len(ext.out.message) <= Len(ErrorPrefix) + ExcerptLimit

\* C19 witness: a response longer than the limit that no strategy parses
C19_Witness ==
    /\ Extracted
    /\ ext.out.kind = "LLMClientError"
    /\ Len(strip(ext.text)) > ExcerptLimit
    /\ Len(ext.out.message) = Len(ErrorPrefix) + ExcerptLimit

-----------------------------------------------------------------------------
\* Properties of complete and complete_json

Calling == llm.pc # "none"

\* the call ended in the LLMClientError of the exhausted loop
RetriesExhausted ==
    llm.pc = "raised" /\ llm.raised_at = "complete"

\* the service has answered a request of the call
Answered == Calling /\ llm.answered

\* the waits so far are retry_delay, 2 * retry_delay, 3 * retry_delay, ...
LinearWaits ==
    llm.sleeps = [k \in 1..Len(llm.sleeps) |-> llm.retry_delay * k]

RetryBounds ==
    Calling =>
        /\ llm.requests <= llm.max_retries
        /\ LinearWaits
        \* one wait before every request but the first, none after the last
        /\ Len(llm.sleeps) = IF llm.requests = 0 THEN 0
                             ELSE IF llm.pc = "loop" /\ llm.attempt < llm.max_retries
                             THEN llm.requests
                             ELSE llm.requests - 1
        \* the first answer ends the loop: every request before it raised
        /\ Answered => llm.requests = llm.attempt + 1
        /\ RetriesExhausted =>
            /\ llm.requests = llm.max_retries
            /\ ~llm.answered

\* C11: complete sends at most max_retries requests, stops at the first
\* answer, waits retry_delay * k between request k and request k+1 and not
\* after the last one, raises LLMClientError once max_retries requests have
\* raised, and always ends.
C11_BoundedRetries == []RetryBounds /\ <>Terminated

\* C11 witness: the default three requests all raised, with waits of
\* retry_delay and 2 * retry_delay between them
C11_Witness ==
    /\ RetriesExhausted
    /\ llm.max_retries = DefaultMaxRetries
    /\ llm.requests = DefaultMaxRetries
    /\ llm.retry_delay = 2
    /\ llm.sleeps = <<2, 4>>

\* C12: once the service has answered a complete_json call no further
\* request is sent, whether the answer parses or not.
C12_NoReissueAfterAnswer ==
    [][(Answered /\ llm.json) => llm'.requests = llm.requests]_vars

\* C12 witness: the second request was answered with text no strategy
\* parses; the call raised and two requests were sent in all
C12_Witness ==
    /\ Calling
    /\ llm.json
    /\ llm.pc = "raised"
    /\ llm.response = Prose(3)
    /\ llm.out.kind = "LLMClientError"
    /\ llm.requests = 2

-----------------------------------------------------------------------------
\* Properties of the clip batch

\* the paths of the clips among the first n whose cut succeeded, in order
RECURSIVE CutPaths(_, _)
CutPaths(outcomes, n) ==
    IF n = 0 THEN <<>>
    ELSE IF outcomes[n] = "ok"
         THEN Append(CutPaths(outcomes, n - 1), ClipPath(n))
         ELSE CutPaths(outcomes, n - 1)

\* no extract_clip call raised anything but ClipExtractionError
OnlyCutFailures ==
    \A i \in 1..Len(batch.outcomes) : batch.outcomes[i] \in {"ok", "ClipExtractionError"}

\* C13: when cuts fail with ClipExtractionError every clip of the batch is
\* still attempted, extract_clips returns the paths of the clips that were cut,
\* in input order, and the request is answered 200.
C13_BatchSurvivesCutFailure ==
    (batch.pc = "responded" /\ OnlyCutFailures) =>
        /\ Len(batch.outcomes) = batch.clips
        /\ batch.clips > 0 => batch.returned
        /\ batch.extracted_paths = CutPaths(batch.outcomes, batch.clips)
        /\ batch.code = "200"

\* C13 witness: the cut of clip 2 of 5 failed; the other four were cut
C13_Witness ==
    /\ batch.pc = "responded"
    /\ batch.clips = 5
    /\ batch.outcomes = <<"ok", "ClipExtractionError", "ok", "ok", "ok">>
    /\ batch.extracted_paths = <<ClipPath(1), ClipPath(3), ClipPath(4), ClipPath(5)>>
    /\ batch.code = "200"

-----------------------------------------------------------------------------
\* Properties of VideoSummarizer.extract_clips

Normalized == norm.pc = "done" /\ norm.out.raised = None

RawClips == DictGet(norm.response, Clips, JArr(<<>>)).v

\* the candidates Clip.from_dict accepts
Usable == {i \in 1..Len(RawClips) : from_dict(RawClips[i]).raised = None}

\* what candidate i is to become: its end moved so that its duration fits
Fitted(i) ==
    LET c == from_dict(RawClips[i])
    IN  IF c.end - c.start < norm.min_duration
        THEN [c EXCEPT !.end = c.start + norm.min_duration]
        ELSE IF c.end - c.start > norm.max_duration
        THEN [c EXCEPT !.end = c.start + norm.max_duration]
        ELSE c

Unusable(x) ==
    \/ x.t # "obj"
    \/ \E key \in {KeyStart, KeyEnd} :
        LET field == DictGet(x, key, JLit(Null))
        IN  \/ field = JLit(Null)
            \/ field.t = "str" /\ ~IsNumeral(field.v)

\* C21: a candidate whose start or end is missing or unusable is dropped and
\* the extraction goes on: it raises nothing and keeps one clip for every
\* other candidate of the response.
C21_UnusableCandidatesDropped ==
    norm.pc = "done" =>
        /\ norm.out.raised = None
        /\ Len(norm.out.ranked)
            = Cardinality({i \in 1..Len(RawClips) : ~Unusable(RawClips[i])})

\* the place in raw_clips of the candidate a returned clip was built from
Origin(clip) == CHOOSE i \in Usable : Fitted(i) = clip

\* clip a is ranked before clip b: more important, or as important and
\* extracted earlier
Before(a, b) ==
    \/ a.importance > b.importance
    \/ a.importance = b.importance /\ Origin(a) < Origin(b)

Selected == {Origin(norm.out.clips[k]) : k \in 1..Len(norm.out.clips)}

\* C22: the result is the first min(num_clips, n) of the n surviving clips by
\* importance descending, ties in extraction order: it holds survivors only,
\* each once, in ranking order, and no survivor left out ranks before a
\* returned one.
C22_RankedSelection ==
    Normalized =>
        /\ Len(norm.out.clips) = Min({norm.num_clips, Cardinality(Usable)})
        /\ \A k \in 1..Len(norm.out.clips) :
            \E i \in Usable : norm.out.clips[k] = Fitted(i)
        /\ \A a, b \in 1..Len(norm.out.clips) :
            a < b => Before(norm.out.clips[a], norm.out.clips[b])
        /\ \A i \in Usable \ Selected :
            \A k \in 1..Len(norm.out.clips) : Before(norm.out.clips[k], Fitted(i))

\* C22 witness: importances [3, 9, 9, 1] and num_clips = 2 give the second
\* and the third candidate, in that order
C22_Witness ==
    /\ Normalized
    /\ norm.num_clips = 2
    /\ RawClips = RankedCandidates(<<3, 9, 9, 1>>)
    /\ norm.out.clips = <<Fitted(2), Fitted(3)>>

\* C23: every returned clip ends after it starts and has an importance
\* between 1 and 10.
C23_ClipInvariant ==
    Normalized =>
        \A k \in 1..Len(norm.out.clips) :
            /\ norm.out.clips[k].end > norm.out.clips[k].start
            /\ 1 <= norm.out.clips[k].importance
            /\ norm.out.clips[k].importance <= 10

\* no chat call is running on the session
Quiet == chat.pc = "session" /\ \A t \in Threads : chat.thread[t].pc = "idle"

\* C24: once the chat calls made have ended, by a response or by an
\* exception, the history is a sequence of exchanges: a user entry, then an
\* assistant entry.
C24_HistoryAlternates ==
    Quiet =>
        /\ Len(chat.history) % 2 = 0
        /\ \A i \in 1..Len(chat.history) :
            chat.history[i].role = (IF i % 2 = 1 THEN "user" ELSE "assistant")

\* s is the end of the sequence q
IsSuffix(s, q) ==
    Len(s) <= Len(q) /\ s = SubSeq(q, Len(q) - Len(s) + 1, Len(q))

\* the prompt of a call in progress holds no more than max_history entries,
\* the most recent ones
PromptWindow ==
    chat.pc = "session" =>
        \A t \in Threads :
            chat.thread[t].pc \in {"context", "prompt"} =>
                /\ Len(chat.thread[t].context) <= chat.max_history
                /\ Len(chat.thread[t].user_prompt) <= chat.max_history
                /\ IsSuffix(chat.thread[t].context, chat.history)
                /\ IsSuffix(chat.thread[t].user_prompt, chat.history)

\* a step of chat leaves every stored entry where it is
HistoryKept ==
    (chat.pc = "session" /\ chat'.op = "chat") =>
        /\ Len(chat'.history) >= Len(chat.history)
        /\ SubSeq(chat'.history, 1, Len(chat.history)) = chat.history

\* C25: a prompt holds at most the max_history most recent entries of the
\* history, and chat deletes no entry of the stored history.
C25_WindowedPromptFullHistory == []PromptWindow /\ [][HistoryKept]_vars

\* C25 witness: with max_history = 20 and 21 entries stored, the prompt
\* holds the last 20
C25_Witness ==
    /\ chat.pc = "session"
    /\ chat.max_history = DefaultMaxHistory
    /\ chat.thread[1].pc = "prompt"
    /\ Len(chat.history) = DefaultMaxHistory + 1
    /\ Len(chat.thread[1].user_prompt) = DefaultMaxHistory
    /\ chat.thread[1].user_prompt[1] = chat.history[2]

\* C30: with two callers on one session, every response in the history comes
\* right after the message it answers, and the prompt of a call holds no
\* message of the other caller that is still waiting for its response.
C30_ExchangesKeptTogether ==
    chat.pc = "session" =>
        /\ \A i \in 1..Len(chat.history) :
            chat.history[i].role = "assistant" =>
                /\ i > 1
                /\ chat.history[i - 1] = ChatMessage("user", chat.history[i].content)
        /\ \A t, u \in Threads :
            (t # u /\ chat.thread[t].pc = "prompt" /\ chat.thread[u].pc # "idle") =>
                \A k \in 1..Len(chat.thread[t].user_prompt) :
                    chat.thread[t].user_prompt[k] # ChatMessage("user", chat.thread[u].message)

\* the distance of two times in microseconds
Apart(a, b) ==
    LET d == (a.s - b.s) * 1000000 + (a.us - b.us)
    IN  IF d < 0 THEN 0 - d ELSE d

\* C26: segments formatted as SRT and parsed again come back one for one, in
\* order, with the same text and with start and end within 10 ms.
C26_SrtRoundTrip ==
    srt.pc = "parsed" =>
        /\ Len(srt.parsed) = Len(srt.segments)
        /\ \A i \in 1..Len(srt.segments) :
            i <= Len(srt.parsed) =>
                /\ srt.parsed[i].text = srt.segments[i].text
                /\ Apart(srt.parsed[i].start, srt.segments[i].start) <= 10000
                /\ Apart(srt.parsed[i].end, srt.segments[i].end) <= 10000

\* C27: the timestamp of a time that is not negative reads back as that time
\* within 1 ms, however large the time; the timestamp of a negative time is
\* 00:00:00,000.
C27_StampRoundTrip ==
    srt.pc = "read" =>
        IF srt.seconds.s < 0
        THEN srt.stamp = <<"0", "0", ":", "0", "0", ":", "0", "0", ",", "0", "0", "0">>
        ELSE /\ srt.parsed.matched
             /\ Apart(srt.parsed.start, srt.seconds) <= 1000

\* Reading text as JSON from state q on: q.string says whether the text so
\* far ends inside a string literal, q.escape whether it ends on the
\* backslash of an escape, q.open holds the scopes open outside strings,
\* innermost last, and q.ok is false once a closer met no scope of its kind
RECURSIVE Lex(_, _)
Lex(text, q) ==
    IF text = <<>>
    THEN q
    ELSE LET c == Head(text)
         IN  Lex(Tail(text),
                 IF q.string
                 THEN IF q.escape THEN [q EXCEPT !.escape = FALSE]
                      ELSE IF c = "\\" THEN [q EXCEPT !.escape = TRUE]
                      ELSE IF c = "\"" THEN [q EXCEPT !.string = FALSE]
                      ELSE q
                 ELSE IF c = "\"" THEN [q EXCEPT !.string = TRUE]
                 ELSE IF c \in {"{", "["} THEN [q EXCEPT !.open = Append(@, c)]
                 ELSE IF c \in {"}", "]"}
                 THEN IF /\ q.open # <<>>
                         /\ q.open[Len(q.open)] = (IF c = "}" THEN "{" ELSE "[")
                      THEN [q EXCEPT !.open = SubSeq(@, 1, Len(@) - 1)]
                      ELSE [q EXCEPT !.ok = FALSE]
                 ELSE q)

Lexed(text) == Lex(text, [string |-> FALSE, escape |-> FALSE, open |-> <<>>, ok |-> TRUE])

EndsInString(text) == Lexed(text).string

ProperlyNested(text) == Lexed(text).ok /\ Lexed(text).open = <<>>

Repaired == ext.pc = "fixed"

\* C28: a candidate that ends inside an unterminated string is given its
\* closing quote before any closer, whatever its last character: the
\* repaired text does not end inside a string.
C28_StringClosedBeforeClosers ==
    (Repaired /\ EndsInString(ext.text)) => ~EndsInString(ext.out)

\* C29: the closers appended to a cut-off JSON object close its open scopes
\* from the innermost to the outermost: the repaired text is properly nested
\* (candidates that end inside a string are C28's).
C29_ClosersInnermostFirst ==
    (Repaired /\ ~EndsInString(ext.text)) => ProperlyNested(ext.out)
====
